---- MODULE Spec2Model ----
(***************************************************************************)
(* msgq::Queue (src/msgq_modern.cc): the shared-memory ring of one         *)
(* publisher handle and several subscriber handles, all opened on the same *)
(* name.  The shared header (write_index, read_index[], num_readers) and   *)
(* the data region are the shared state; is_publisher_ and reader_id_ are  *)
(* per handle.  send_message is modelled step by step (load, memcpy calls, *)
(* release store), every other call is one atomic step.                    *)
(***************************************************************************)
EXTENDS Integers, Sequences, FiniteSets, TLC

(***************************************************************************)
(* Bounds of the model.                                                    *)
(***************************************************************************)
\* the size passed to Queue::create by every handle
ReqSize == 16
\* subscriber handles (Queue objects on which init_subscriber may be called)
NumSubs == 2
\* sends explored (each send adds one to the cycle field)
MaxSends == 2
\* modulus of one half of a packed pointer; the code's halves are 32 bits
\* wide, the model packs the same way into narrower halves
HalfMod == 32
\* largest value an eventfd counter reaches (set() calls explored per event)
MaxCount == 2
\* events in the list passed to wait_for_one
MaxEvents == 2
\* receives of the fake socket, and cycles of its driver, explored
MaxRounds == 2
\* init_subscriber calls explored beyond the NUM_READERS-th (lifetime model)
MaxExtraRegs == 1
\* handle terminations explored (lifetime model)
MaxEnded == 1
\* queues created by the connects of the socket objects
MaxQueues == 1
\* SocketEventHandle objects
NumEventHandles == 2
\* messages waiting for the subscriber socket
MaxInbox == 1
\* msgq_msg_recv and msgq_poll calls counted in one receive (the counts
\* stay there when the receive makes more)
MaxTries == 2
MaxPolls == 2

(***************************************************************************)
(* Program constants.                                                      *)
(***************************************************************************)
NUM_READERS == 15

\* constexpr size_t align_to_8(size_t n)
align_to_8(n) == ((n + 7) \div 8) * 8

\* Impl::size_, set by the constructor to align_to_8(size)
size_ == align_to_8(ReqSize)

(***************************************************************************)
(* PackedPointer: cycle in the high half, offset in the low half.          *)
(***************************************************************************)
\* a packing that shifts the cycle one bit short
PackedPointerShort(c, o) == ((c % HalfMod) * (HalfMod \div 2)) + (o % HalfMod)

PackedPointer(c, o) == ((c % HalfMod) * HalfMod) + (o % HalfMod)
cycle(v) == (v \div HalfMod) % HalfMod
offset(v) == v % HalfMod
\* explicit PackedPointer(uint64_t raw), raw() and operator==
FromRaw(x) == x % (HalfMod * HalfMod)
raw(v) == v
Equal(a, b) == a = b

(***************************************************************************)
(* Handles and payloads.                                                   *)
(***************************************************************************)
Pub == 0
Subs == 1..NumSubs
Handles == {Pub} \cup Subs

\* payload lengths tried: empty, one byte, exactly size_, and one byte more
\* than size_
PayloadLens == {0, 1, size_, size_ + 1}
\* the payload of length n: byte i holds i
Payload(n) == [i \in 1..n |-> i]
Payloads == {Payload(n) : n \in PayloadLens}

VARIABLES
  write_index,    \* Header::write_index (packed)
  read_index,     \* Header::read_index[NUM_READERS] (packed)
  num_readers,    \* Header::num_readers
  data,           \* the data region, data_start_[0 .. size_-1]
  is_publisher_,  \* Impl::is_publisher_ of each handle
  reader_id_,     \* Impl::reader_id_ of each handle
  pub,            \* the publisher's call of send_message in progress
  ret,            \* the last completed call: what it threw (err) or returned (msg)
  sent,           \* history: the payloads published, in order
  joinAt,         \* history: Len(sent) when the handle last subscribed
  rcvd,           \* history: messages returned to the handle with new data
  ended,          \* history: subscribed handles destroyed, and killed, so far
  reg,            \* init_subscriber in progress: the num_readers value it read
  count,          \* the eventfd counters of the event pair, by EventPurpose
  enabled,        \* EventState::enabled in the shared event state
  state,          \* FakeSubSocket::state, the copy of EventState made by connect
  thr,            \* the subscriber's and the driver's thread: call in progress
  eret,           \* the last completed event or socket call of a thread
  chan,           \* the messages the underlying socket has not yet received
  esets,          \* history: set() calls on each event since its last clear
  gate,           \* history: receives past the gate, driver cycles completed
  sock,           \* the MSGQSubSocket and the MSGQPubSocket object
  closes,         \* history: msgq_close_queue calls on each queue created
  inbox,          \* messages waiting in the queue the subscriber socket reads
  sret,           \* the last completed call on a socket
  pp,             \* a PackedPointer computation: its inputs and results
  hnd,            \* the SocketEventHandle objects: their members
  kern            \* the event-state files, mappings and eventfd pairs

vars == <<write_index, read_index, num_readers, data, is_publisher_,
          reader_id_, pub, ret, sent, joinAt, rcvd, ended,
          reg, count, enabled, state, thr, eret, chan, esets, gate,
          sock, closes, inbox, sret, pp, hnd, kern>>

shared == <<write_index, read_index, num_readers, data>>
hist == <<sent, joinAt, rcvd, ended>>

\* the variables of the MSGQ sockets
sockvars == <<sock, closes, inbox, sret>>
\* the variables of the event pair and of the fake socket
pairvars == <<count, enabled, state, thr, eret, chan, esets, gate>>
\* the variables of the queue
queuevars == <<shared, is_publisher_, reader_id_, pub, ret, hist, reg>>
\* the variables of the PackedPointer computations
packvars == <<pp>>
\* what a queue operation leaves alone, what an event operation does, and
\* what a socket operation does
\* the variables of the SocketEventHandle objects
handlevars == <<hnd, kern>>
evvars == <<pairvars, sockvars, packvars, handlevars>>
qvars == <<queuevars, sockvars, packvars, handlevars>>
notsock == <<pairvars, queuevars, packvars, handlevars>>
nothandle == <<pairvars, queuevars, sockvars, packvars>>

Idle == [pc |-> 0, p |-> <<>>, w |-> 0]

\* enum class EventPurpose; an Event's event_fd_ is modelled by the purpose
\* of the eventfd it names, an Event without descriptor by -1
RECV_CALLED == 0
RECV_READY == 1
NoFd == -1
Purposes == {RECV_CALLED, RECV_READY}
Fds == Purposes \cup {NoFd}

\* the two threads that use the event pair
Threads == {"sub", "drv"}

\* a thread outside any call.  pc is its position, ev and t the arguments
\* of the wait it is in, at the position it continues at when the wait
\* returns, nb the non_blocking argument of its receive; en (the shared
\* enabled flag when receive was called) and did (the gate steps the
\* receive has performed) are history
Ready == [pc |-> "idle", ev |-> NoFd, t |-> 0, at |-> "idle", nb |-> FALSE,
          en |-> FALSE, did |-> <<>>]

\* what a call returns to its thread
Result(p, op, err, val, msg) ==
  [p |-> p, op |-> op, err |-> err, val |-> val, msg |-> msg]

\* no PackedPointer computation: inputs c, o (first pointer) and c2, o2
\* (second pointer); v and w the two constructed values, r the pointer
\* constructed from v.raw()
NoPack == [at |-> "none", c |-> 0, o |-> 0, c2 |-> 0, o2 |-> 0,
           v |-> 0, w |-> 0, r |-> 0]

\* the SocketEventHandle objects, all in one process and on one endpoint
EventHandles == 1..NumEventHandles

\* a SocketEventHandle before its construction.  map is the mapping mmap_
\* holds (0: addr_ is null), state says state_ is not null, path that
\* shm_path_ is not empty
NoHandle == [life |-> "none", map |-> 0, state |-> FALSE, path |-> FALSE]

\* no event-state file exists.  files gives, for each file created, the
\* eventfd pair its EventState::fds names (0: the zeroes of a fresh file);
\* linked is the file now at the path (0: none); mapfile the file of each
\* mapping; unmaps, fdclose, creator, foreign and late are history: the
\* munmap calls on each mapping, the close calls on each pair, the handle
\* that created the pair, the close calls by a handle on descriptors it
\* did not create, and the close calls on a pair whose file is unlinked
NoFiles == [files |-> <<>>, linked |-> 0, mapfile |-> <<>>, unmaps |-> <<>>,
            fdclose |-> <<>>, creator |-> <<>>, foreign |-> 0, late |-> 0]

HandleInit ==
  /\ hnd = [h \in EventHandles |-> NoHandle]
  /\ kern = NoFiles

\* the socket objects: one subscriber socket, one publisher socket
Sockets == {"sub", "pub"}

\* a socket object before its construction.  q is the queue its unique_ptr
\* holds (0: null), timeout the member of that name, pc the position of
\* its receive, nb that receive's argument; tries and polls (the
\* msgq_msg_recv and msgq_poll calls of the receive) and rc (the last
\* msgq_msg_recv result) belong to the receive in progress or just ended
NoSocket == [life |-> "none", q |-> 0, timeout |-> -1, pc |-> "idle",
             nb |-> FALSE, tries |-> 0, polls |-> 0, rc |-> 0, n |-> 0]

\* what a socket call gives its caller: out is "ok" (returned 0), "socket",
\* "msg", "null" (returned nullptr) or "throw"; fail names what failed
SockResult(s, op, out, fail) == [s |-> s, op |-> op, out |-> out, fail |-> fail]

SockInit ==
  /\ sock = [s \in Sockets |-> NoSocket]
  /\ closes = <<>>
  /\ inbox = 0
  /\ sret = SockResult("sub", "none", "ok", "none")
  /\ HandleInit

\* the event pair after SocketEventHandle(endpoint, identifier, true): two
\* fresh eventfds with counter 0; no socket has connected yet
EvInit ==
  /\ count = [e \in Purposes |-> 0]
  /\ enabled = FALSE
  /\ state = [conn |-> FALSE, enabled |-> FALSE]
  /\ thr = [p \in Threads |-> Ready]
  /\ eret = Result("drv", "create", "none", 0, <<>>)
  /\ chan = <<>>
  /\ esets = [e \in Purposes |-> 0]
  /\ gate = [calls |-> 0, passed |-> 0, begun |-> 0, cycles |-> 0]
  /\ SockInit

\* Queue::create on a fresh name: ftruncate gives a zero-filled file
Created ==
  /\ write_index = 0
  /\ read_index = [i \in 0..(NUM_READERS - 1) |-> 0]
  /\ num_readers = 0
  /\ data = [a \in 0..(size_ - 1) |-> 0]
  /\ is_publisher_ = [h \in Handles |-> FALSE]
  /\ reader_id_ = [h \in Handles |-> -1]
  /\ pub = Idle
  /\ ret = [op |-> "create", err |-> "none", msg |-> <<>>]
  /\ sent = <<>>
  /\ joinAt = [h \in Handles |-> -1]
  /\ rcvd = [h \in Handles |-> <<>>]
  /\ ended = [destroyed |-> 0, killed |-> 0]
  /\ reg = [h \in Handles |-> -1]
  /\ EvInit

Init == Created /\ pp = NoPack

(***************************************************************************)
(* Queue::init_publisher                                                   *)
(***************************************************************************)
\* an init_publisher that also rewinds the ring
InitPublisherRewinds ==
  /\ pub.pc = 0
  /\ is_publisher_' = [is_publisher_ EXCEPT ![Pub] = TRUE]
  /\ write_index' = 0
  /\ ret' = [op |-> "init_publisher", err |-> "none", msg |-> <<>>]
  /\ UNCHANGED <<read_index, num_readers, data, reader_id_, pub, hist, evvars,
                 reg>>

InitPublisher ==
  /\ pub.pc = 0
  /\ is_publisher_' = [is_publisher_ EXCEPT ![Pub] = TRUE]
  /\ ret' = [op |-> "init_publisher", err |-> "none", msg |-> <<>>]
  /\ UNCHANGED <<shared, reader_id_, pub, hist, evvars, reg>>

(***************************************************************************)
(* Queue::init_subscriber: reader_id_ = num_readers++, then the range      *)
(* check; read_index is not written.  Each handle subscribes once; the     *)
(* handles being interchangeable, they subscribe in the order of their     *)
(* numbers.                                                                *)
(***************************************************************************)
\* a range check that lets one registration too many through
SlotCheckOffByOne(id) == id > NUM_READERS

\* the range check of init_subscriber: it throws when this holds
SlotCheckFails(id) == id >= NUM_READERS

InitSubscriber(h) ==
  /\ reader_id_[h] = -1
  /\ \A g \in DOMAIN reader_id_ : (g # Pub /\ g < h) => reader_id_[g] # -1
  /\ reader_id_' = [reader_id_ EXCEPT ![h] = num_readers]
  /\ num_readers' = num_readers + 1
  /\ ret' = [op |-> "init_subscriber",
             err |-> IF SlotCheckFails(num_readers) THEN "MaxReaders" ELSE "none",
             msg |-> <<>>]
  /\ joinAt' = [joinAt EXCEPT ![h] = Len(sent)]
  /\ rcvd' = [rcvd EXCEPT ![h] = <<>>]
  /\ UNCHANGED <<write_index, read_index, data, is_publisher_, pub, sent, ended,
                 evvars, reg>>

(***************************************************************************)
(* Queue::Impl::send_message                                               *)
(***************************************************************************)
\* memcpy(data_start_ + dst, p + from, cnt), from counted from 0
memcpy(d, dst, p, from, cnt) ==
  [a \in DOMAIN d |->
     IF a >= dst /\ a < dst + cnt THEN p[from + (a - dst) + 1] ELSE d[a]]

\* a send that publishes the pointer before it copies the bytes
SendStepsStoreFirst(w, n) ==
  IF offset(w) + n > size_
    THEN <<"store", "copy_head", "copy_tail">>
    ELSE <<"store", "copy">>

\* the statements of send_message after the load of write_index, in
\* program order
SendSteps(w, n) ==
  IF offset(w) + n > size_
    THEN <<"copy_head", "copy_tail", "store">>
    ELSE <<"copy", "store">>

\* a pointer whose cycle counts the wraps of this send only, the cycle
\* loaded from write_index being forgotten
NewPtrForgetsCycle(w, n) ==
  PackedPointer((offset(w) + n) \div size_, (offset(w) + n) % size_)

\* a pointer that moves the offset and keeps the cycle
NewPtrKeepsCycle(w, n) == PackedPointer(cycle(w), (offset(w) + n) % size_)

\* the pointer stored at the end of send_message
NewPtr(w, n) == PackedPointer(cycle(w) + 1, (offset(w) + n) % size_)

\* send accepts the payload
SendAccepts(n) == ~(n > size_)

\* a send_message without its first check
PublisherCheckMissing == FALSE

\* the first check of send_message: it throws when this holds
PublisherCheckFails == ~is_publisher_[Pub]

\* entry of send_message: the two checks and the load of write_index
SendBegin(p) ==
  /\ pub.pc = 0
  /\ Len(sent) < MaxSends
  /\ IF PublisherCheckFails
       THEN /\ ret' = [op |-> "send", err |-> "NotPublisher", msg |-> <<>>]
            /\ pub' = pub
       ELSE IF ~SendAccepts(Len(p))
         THEN /\ ret' = [op |-> "send", err |-> "TooLarge", msg |-> <<>>]
              /\ pub' = pub
         ELSE /\ pub' = [pc |-> 1, p |-> p, w |-> write_index]
              /\ ret' = ret
  /\ UNCHANGED <<shared, is_publisher_, reader_id_, hist, evvars, reg>>

\* one statement of the send in progress
SendStmt ==
  /\ pub.pc > 0
  /\ LET n == Len(pub.p)
         off == offset(pub.w)
         steps == SendSteps(pub.w, n)
         st == steps[pub.pc]
         last == pub.pc = Len(steps)
     IN /\ data' = CASE st = "copy" -> memcpy(data, off, pub.p, 0, n)
                     [] st = "copy_head" -> memcpy(data, off, pub.p, 0, size_ - off)
                     [] st = "copy_tail" ->
                          memcpy(data, 0, pub.p, size_ - off, n - (size_ - off))
                     [] OTHER -> data
        /\ write_index' = IF st = "store" THEN NewPtr(pub.w, n) ELSE write_index
        /\ sent' = IF st = "store" THEN Append(sent, pub.p) ELSE sent
        /\ pub' = IF last THEN Idle ELSE [pub EXCEPT !.pc = @ + 1]
        /\ ret' = IF last THEN [op |-> "send", err |-> "none", msg |-> <<>>] ELSE ret
  /\ UNCHANGED <<read_index, num_readers, is_publisher_, reader_id_, joinAt,
                 rcvd, ended, evvars, reg>>

\* a send whose statements wait until every registered reader has caught up
SendStepWaits ==
  /\ \A i \in 0..(num_readers - 1) : read_index[i] = write_index
  /\ SendStmt

\* the publisher's thread runs the next statement of its call; no statement
\* of send_message waits, locks or retries
SendStep == SendStmt

(***************************************************************************)
(* Queue::Impl::receive_message                                            *)
(***************************************************************************)
\* the Message returned when read_ptr differs from write_ptr
RecvResult(d, r, w) == <<>>

\* a cursor stored one send ahead of the pointer that was loaded
RecvAdvanceAhead(r, w) == PackedPointer(cycle(w) + 1, offset(w))

\* the value stored to read_index[reader_id_] when there is new data
RecvAdvance(r, w) == w

\* a comparison that came out inverted
NoNewDataInverted(r, w) == r # w

\* the test for "no new data": read_ptr == write_ptr
NoNewData(r, w) == r = w

Recv(h) ==
  /\ reader_id_[h] < NUM_READERS
  /\ IF reader_id_[h] < 0
       THEN /\ ret' = [op |-> "recv", err |-> "NotSubscriber", msg |-> <<>>]
            /\ UNCHANGED <<read_index, rcvd>>
       ELSE LET r == read_index[reader_id_[h]]
                w == write_index
            IN IF NoNewData(r, w)
                 THEN /\ ret' = [op |-> "recv", err |-> "none", msg |-> <<>>]
                      /\ UNCHANGED <<read_index, rcvd>>
                 ELSE /\ read_index' =
                           [read_index EXCEPT ![reader_id_[h]] = RecvAdvance(r, w)]
                      /\ rcvd' = [rcvd EXCEPT ![h] = Append(@, RecvResult(data, r, w))]
                      /\ ret' = [op |-> "recv", err |-> "none",
                                 msg |-> RecvResult(data, r, w)]
  /\ UNCHANGED <<write_index, num_readers, data, is_publisher_, reader_id_,
                 pub, sent, joinAt, ended, evvars, reg>>

(***************************************************************************)
(* Queue::msg_ready and Queue::all_readers_updated: const methods, which   *)
(* change nothing; the operators give what they return.                    *)
(***************************************************************************)
\* the answers msg_ready can give on handle h; read_index[-1] on a handle
\* that never subscribed is outside the array: any answer
msg_ready(h) ==
  IF reader_id_[h] < 0 \/ reader_id_[h] >= NUM_READERS
    THEN BOOLEAN
    ELSE {read_index[reader_id_[h]] # write_index}

\* the index of read_index that msg_ready uses on handle h, that
\* receive_message uses once reader_id_ >= 0, and those that the loop of
\* all_readers_updated uses
MsgReadyIndex(h) == reader_id_[h]
RecvIndexes == {reader_id_[h] : h \in {g \in DOMAIN reader_id_ : reader_id_[g] >= 0}}
AllReadersIndexes == 0..(num_readers - 1)

\* a loop that stops one slot short
AllReadersButLast ==
  \A i \in 0..(num_readers - 2) : read_index[i] = write_index

all_readers_updated ==
  \A i \in 0..(num_readers - 1) : read_index[i] = write_index

\* Queue::num_readers(): a read of Header::num_readers
NumReaders ==
  /\ pub.pc = 0
  /\ num_readers \in Nat
  /\ UNCHANGED vars

MsgReady(h) ==
  /\ h = Pub => pub.pc = 0
  /\ msg_ready(h) # {}
  /\ UNCHANGED vars

AllReadersUpdated ==
  /\ pub.pc = 0
  /\ all_readers_updated \in BOOLEAN
  /\ UNCHANGED vars

Next ==
  \/ InitPublisher
  \/ \E h \in Subs : InitSubscriber(h)
  \/ \E p \in Payloads : SendBegin(p)
  \/ SendStep
  \/ \E h \in Handles : Recv(h)
  \/ \E h \in Handles : MsgReady(h)
  \/ AllReadersUpdated
  \/ NumReaders

Spec == Init /\ [][Next]_vars

\* the publisher's thread keeps running its call
FairSpec == Spec /\ WF_vars(SendStep)

(***************************************************************************)
(* init_subscriber statement by statement.  reader_id_ = num_readers++ on  *)
(* the plain uint32_t Header::num_readers is a load followed by a store;   *)
(* two handles may run it at the same time.                                *)
(***************************************************************************)
\* the load of header_->num_readers
RegLoad(h) ==
  /\ reader_id_[h] = -1
  /\ reg[h] = -1
  /\ reg' = [reg EXCEPT ![h] = num_readers]
  /\ UNCHANGED <<shared, is_publisher_, reader_id_, pub, ret, hist, evvars>>

\* the store of the incremented value, the assignment to reader_id_ and
\* the range check
RegStore(h) ==
  /\ reg[h] # -1
  /\ num_readers' = reg[h] + 1
  /\ reader_id_' = [reader_id_ EXCEPT ![h] = reg[h]]
  /\ ret' = [op |-> "init_subscriber",
             err |-> IF SlotCheckFails(reg[h]) THEN "MaxReaders" ELSE "none",
             msg |-> <<>>]
  /\ joinAt' = [joinAt EXCEPT ![h] = Len(sent)]
  /\ rcvd' = [rcvd EXCEPT ![h] = <<>>]
  /\ reg' = [reg EXCEPT ![h] = -1]
  /\ UNCHANGED <<write_index, read_index, data, is_publisher_, pub, sent, ended,
                 evvars>>

RaceNext ==
  \/ InitPublisher
  \/ \E h \in Subs : RegLoad(h)
  \/ \E h \in Subs : RegStore(h)
  \/ \E p \in Payloads : SendBegin(p)
  \/ SendStep
  \/ \E h \in Subs : Recv(h)
  \/ \E h \in Subs : MsgReady(h)
  \/ AllReadersUpdated
  \/ NumReaders

RaceSpec == Init /\ [][RaceNext]_vars

(***************************************************************************)
(* Handle lifetime: NUM_READERS + 1 subscriber handles on one channel, the *)
(* first NumSubs of which may end, by destruction or by the death of their *)
(* process, and be replaced by a newly created Queue on the same name.     *)
(* The channel is either fresh or holds one published one-byte message;    *)
(* nothing more is sent: registration reads and writes only num_readers    *)
(* and reader_id_.                                                         *)
(***************************************************************************)
SlotSubs == 1..(NUM_READERS + 1)
SlotHandles == {Pub} \cup SlotSubs

\* what was published before the first subscriber registers
SlotPrior == {<<>>, <<Payload(1)>>}

SlotInit ==
  /\ sent \in SlotPrior
  /\ write_index = IF sent = <<>> THEN 0 ELSE NewPtr(0, 1)
  /\ read_index = [i \in 0..(NUM_READERS - 1) |-> 0]
  /\ num_readers = 0
  /\ data = IF sent = <<>>
              THEN [a \in 0..(size_ - 1) |-> 0]
              ELSE memcpy([a \in 0..(size_ - 1) |-> 0], 0, Payload(1), 0, 1)
  /\ is_publisher_ = [h \in SlotHandles |-> h = Pub /\ sent # <<>>]
  /\ reader_id_ = [h \in SlotHandles |-> -1]
  /\ pub = Idle
  /\ ret = [op |-> "create", err |-> "none", msg |-> <<>>]
  /\ joinAt = [h \in SlotHandles |-> -1]
  /\ rcvd = [h \in SlotHandles |-> <<>>]
  /\ ended = [destroyed |-> 0, killed |-> 0]
  /\ reg = [h \in SlotHandles |-> -1]
  /\ EvInit
  /\ pp = NoPack

\* the handle's members after its Queue is gone and Queue::create has made
\* a new one in its place: the constructor's reader_id_ = -1
Recreated(h) ==
  /\ reader_id_' = [reader_id_ EXCEPT ![h] = -1]
  /\ joinAt' = [joinAt EXCEPT ![h] = -1]
  /\ rcvd' = [rcvd EXCEPT ![h] = <<>>]

\* ~Queue of a subscribed handle: the defaulted destructors unmap the
\* segment and close the descriptor; no field of the header is written
Destroy(h) ==
  /\ reader_id_[h] # -1
  /\ ended.destroyed + ended.killed < MaxEnded
  /\ Recreated(h)
  /\ ended' = [ended EXCEPT !.destroyed = @ + 1]
  /\ ret' = [op |-> "destroy", err |-> "none", msg |-> <<>>]
  /\ UNCHANGED <<shared, is_publisher_, pub, sent, evvars, reg>>

\* the process of a subscribed handle dies: no code of the handle runs
Kill(h) ==
  /\ reader_id_[h] # -1
  /\ ended.destroyed + ended.killed < MaxEnded
  /\ Recreated(h)
  /\ ended' = [ended EXCEPT !.killed = @ + 1]
  /\ ret' = [op |-> "kill", err |-> "none", msg |-> <<>>]
  /\ UNCHANGED <<shared, is_publisher_, pub, sent, evvars, reg>>

\* init_subscriber, while the number of registrations explored allows
Register(h) ==
  /\ num_readers < NUM_READERS + MaxExtraRegs
  /\ InitSubscriber(h)

SlotNext ==
  \/ InitPublisher
  \/ \E h \in SlotSubs : Register(h)
  \/ \E h \in Subs : Destroy(h)
  \/ \E h \in Subs : Kill(h)
  \/ \E h \in Subs : Recv(h)
  \/ \E h \in Subs : MsgReady(h)
  \/ (num_readers <= NUM_READERS /\ AllReadersUpdated)

SlotSpec == SlotInit /\ [][SlotNext]_vars

(***************************************************************************)
(* Opening the existing channel with another size: Queue::create by a      *)
(* further process runs init_shared_memory on the same file.  What the     *)
(* handles already mapped do on a resized file is not modelled: the model  *)
(* stops at the resize.                                                    *)
(***************************************************************************)
\* sizes requested by the further process: one smaller, one larger
OtherSizes == {ReqSize - 8, ReqSize + 8}

\* the data region after ftruncate(fd, sizeof(Header) + n): bytes beyond
\* the new length are dropped, new bytes read as zero
ftruncate(d, n) == [a \in 0..(n - 1) |-> IF a \in DOMAIN d THEN d[a] ELSE 0]

\* the file still has the length its creator gave it
Intact == DOMAIN data = 0..(size_ - 1)

\* init_shared_memory of a Queue created with size sz on the existing name:
\* open, ftruncate to the requested length, mmap; nothing is compared and
\* nothing is thrown when the calls succeed
init_shared_memory(sz) ==
  /\ Intact
  /\ data' = ftruncate(data, align_to_8(sz))
  /\ ret' = [op |-> "create", err |-> "none", msg |-> <<>>]
  /\ UNCHANGED <<write_index, read_index, num_readers, is_publisher_,
                 reader_id_, pub, hist, evvars, reg>>

SizeNext ==
  \/ (Intact /\ InitPublisher)
  \/ \E h \in Subs : Intact /\ InitSubscriber(h)
  \/ \E p \in Payloads : Intact /\ SendBegin(p)
  \/ (Intact /\ SendStep)
  \/ \E h \in Handles : Intact /\ Recv(h)
  \/ \E h \in Handles : Intact /\ MsgReady(h)
  \/ (Intact /\ AllReadersUpdated)
  \/ (Intact /\ NumReaders)
  \/ \E sz \in OtherSizes : init_shared_memory(sz)

SizeSpec == Init /\ [][SizeNext]_vars

(***************************************************************************)
(* msgq::event::Event (src/event_modern.h): a wrapper of an eventfd made   *)
(* with EFD_NONBLOCK.  write adds to the counter, read returns the counter *)
(* and resets it to zero (EAGAIN when it is zero), the descriptor polls    *)
(* readable while the counter is positive.                                 *)
(***************************************************************************)
\* the timeout_sec arguments tried: infinite and finite
Timeouts == {-1, 0}

\* the lists passed to wait_for_one
EventLists == UNION {[1..n -> Fds] : n \in 0..MaxEvents}

\* Event::validate does not throw
validate(e) == ~(e < 0)

\* Event::is_valid
is_valid(e) == e >= 0

\* a descriptor that polls readable only from the second write on
ReadableFromTwo(e) == count[e] > 1

\* the descriptor polls readable
Readable(e) == count[e] > 0

\* a clear that reports a binary event
ClearValueBinary(c) == 1

\* the value Event::clear returns for a counter read as c
ClearValue(c) == c

\* Event::set: validate, then write(event_fd_, 1)
EventSet(p, e) ==
  IF ~validate(e)
    THEN /\ eret' = Result(p, "set", "NoFd", 0, <<>>)
         /\ UNCHANGED <<count, esets>>
    ELSE /\ count[e] < MaxCount
         /\ count' = [count EXCEPT ![e] = @ + 1]
         /\ esets' = [esets EXCEPT ![e] = @ + 1]
         /\ eret' = Result(p, "set", "none", 0, <<>>)

\* Event::clear: validate, then read(event_fd_); the read of a zero counter
\* fails with EAGAIN
EventClear(p, e) ==
  IF ~validate(e)
    THEN /\ eret' = Result(p, "clear", "NoFd", 0, <<>>)
         /\ UNCHANGED <<count, esets>>
    ELSE IF count[e] = 0
      THEN /\ eret' = Result(p, "clear", "ReadFailed", 0, <<>>)
           /\ UNCHANGED <<count, esets>>
      ELSE /\ eret' = Result(p, "clear", "none", ClearValue(count[e]), <<>>)
           /\ count' = [count EXCEPT ![e] = 0]
           /\ esets' = [esets EXCEPT ![e] = 0]

\* Event::wait up to the call of ppoll: the thread waits in ppoll, to go on
\* at position at when ppoll reports the event
EventWait(p, e, t, at) ==
  IF ~validate(e)
    THEN /\ eret' = Result(p, "wait", "NoFd", 0, <<>>)
         /\ thr' = [thr EXCEPT ![p] = Ready]
    ELSE /\ eret' = eret
         /\ thr' = [thr EXCEPT ![p].pc = "wait", ![p].ev = e, ![p].t = t,
                               ![p].at = at]

set(p, e) ==
  /\ thr[p].pc = "idle"
  /\ EventSet(p, e)
  /\ UNCHANGED <<enabled, state, thr, chan, gate, qvars>>

clear(p, e) ==
  /\ thr[p].pc = "idle"
  /\ EventClear(p, e)
  /\ UNCHANGED <<enabled, state, thr, chan, gate, qvars>>

wait(p, e, t) ==
  /\ thr[p].pc = "idle"
  /\ EventWait(p, e, t, "idle")
  /\ UNCHANGED <<count, esets, enabled, state, chan, gate, qvars>>

\* a ppoll that also gives up on an infinite timeout
PollMayTimeOutAlways(t) == TRUE

\* ppoll is given a timeout: timeout_sec < 0 passes nullptr
PollMayTimeOut(t) == ~(t < 0)

\* ppoll returns 1: the event is readable.  A wait called on its own
\* returns; a wait inside receive or inside the driver's cycle goes on there
ppoll_ready(p) ==
  /\ thr[p].pc = "wait"
  /\ Readable(thr[p].ev)
  /\ thr' = [thr EXCEPT ![p].pc = thr[p].at, ![p].at = "idle",
                        ![p].did = IF thr[p].at = "idle" THEN @
                                   ELSE Append(@, "wait")]
  /\ eret' = IF thr[p].at = "idle"
               THEN Result(p, "wait", "none", 0, <<>>) ELSE eret
  /\ UNCHANGED <<count, esets, enabled, state, chan, gate, qvars>>

\* ppoll returns 0: the deadline has elapsed with the event not readable
ppoll_timeout(p) ==
  /\ thr[p].pc = "wait"
  /\ PollMayTimeOut(thr[p].t)
  /\ ~Readable(thr[p].ev)
  /\ thr' = [thr EXCEPT ![p] = Ready]
  /\ eret' = Result(p, "wait", "Timeout", 0, <<>>)
  /\ UNCHANGED <<count, esets, enabled, state, chan, gate, qvars>>

\* ppoll returns -1: one of the signals left unblocked has interrupted it
ppoll_failed(p) ==
  /\ thr[p].pc = "wait"
  /\ thr' = [thr EXCEPT ![p] = Ready]
  /\ eret' = Result(p, "wait", "PollFailed", 0, <<>>)
  /\ UNCHANGED <<count, esets, enabled, state, chan, gate, qvars>>

\* Event::peek: poll with timeout 0; false without descriptor
peek(e) == IF e < 0 THEN FALSE ELSE Readable(e)

Peek(p, e) ==
  /\ thr[p].pc = "idle"
  /\ eret' = Result(p, "peek", "none", IF peek(e) THEN 1 ELSE 0, <<>>)
  /\ UNCHANGED <<count, esets, enabled, state, thr, chan, gate, qvars>>

\* the pollfd array wait_for_one builds: the valid events only
PollFds(evs) == SelectSeq(evs, is_valid)

\* the positions of s whose event is readable
ReadyAt(s) == {i \in 1..Len(s) : is_valid(s[i]) /\ Readable(s[i])}

Lowest(S) == CHOOSE i \in S : \A j \in S : i <= j

\* Event::wait_for_one with something to report at once or a deadline that
\* elapses; with nothing readable and an infinite timeout the caller stays
\* in ppoll, which is the call made later
wait_for_one(p, evs, t) ==
  /\ thr[p].pc = "idle"
  /\ LET fds == PollFds(evs)
     IN IF evs = <<>>
          THEN eret' = Result(p, "wait_for_one", "NoEvents", 0, <<>>)
          ELSE IF fds = <<>>
            THEN eret' = Result(p, "wait_for_one", "AllInvalid", 0, <<>>)
            ELSE \/ /\ ReadyAt(fds) # {}
                    /\ eret' = Result(p, "wait_for_one", "none",
                                      Lowest(ReadyAt(fds)) - 1, <<>>)
                 \/ /\ ReadyAt(fds) = {}
                    /\ PollMayTimeOut(t)
                    /\ eret' = Result(p, "wait_for_one", "Timeout", 0, <<>>)
                 \/ eret' = Result(p, "wait_for_one", "PollFailed", 0, <<>>)
  /\ UNCHANGED <<count, esets, enabled, state, thr, chan, gate, qvars>>

EventNext ==
  \/ \E p \in Threads, e \in Fds : set(p, e)
  \/ \E p \in Threads, e \in Fds : clear(p, e)
  \/ \E p \in Threads, e \in Fds, t \in Timeouts : wait(p, e, t)
  \/ \E p \in Threads : ppoll_ready(p)
  \/ \E p \in Threads : ppoll_timeout(p)
  \/ \E p \in Threads : ppoll_failed(p)
  \/ \E p \in Threads, e \in Fds : Peek(p, e)
  \/ \E evs \in EventLists, t \in Timeouts : wait_for_one("drv", evs, t)

EventSpec == Init /\ [][EventNext]_vars

\* ppoll returns when the event is readable or the deadline has elapsed
EventFairSpec ==
  EventSpec /\ \A p \in Threads : WF_vars(ppoll_ready(p) \/ ppoll_timeout(p))

(***************************************************************************)
(* FakeSubSocket<TSubSocket> (src/impl_fake_modern.h, .cc) and the driver  *)
(* that releases it.  connect copies the shared EventState into            *)
(* FakeSubSocket::state; receive runs set, wait, clear when that copy says *)
(* enabled, then the underlying receive.  The driver's cycle is            *)
(* recv_called.wait, a send, recv_ready.set.                               *)
(***************************************************************************)
\* the test at the head of receive: state && state->enabled
GateFlag == state.conn /\ state.enabled

\* SocketEventHandle::set_enabled, called by the driver between its cycles
set_enabled(b) ==
  /\ thr["drv"].pc = "idle"
  /\ enabled' = b
  /\ eret' = Result("drv", "set_enabled", "none", 0, <<>>)
  /\ UNCHANGED <<count, esets, state, thr, chan, gate, qvars>>

\* FakeSubSocket::connect on the event state the driver has created
connect ==
  /\ thr["sub"].pc = "idle"
  /\ ~state.conn
  /\ state' = [conn |-> TRUE, enabled |-> enabled]
  /\ eret' = Result("sub", "connect", "none", 0, <<>>)
  /\ UNCHANGED <<count, esets, enabled, thr, chan, gate, qvars>>

\* entry of FakeSubSocket::receive on a connected socket
receive(nb) ==
  /\ thr["sub"].pc = "idle"
  /\ state.conn
  /\ gate.calls < MaxRounds
  /\ thr' = [thr EXCEPT !["sub"] =
               [Ready EXCEPT !.pc = IF GateFlag THEN "set" ELSE "under",
                             !.nb = nb, !.en = enabled]]
  /\ gate' = [gate EXCEPT !.calls = @ + 1,
                          !.passed = IF enabled /\ ~GateFlag THEN @ + 1 ELSE @]
  /\ UNCHANGED <<count, esets, enabled, state, eret, chan, qvars>>

\* recv_called->set(), then recv_ready->wait() up to its ppoll
receive_set ==
  /\ thr["sub"].pc = "set"
  /\ EventSet("sub", RECV_CALLED)
  /\ thr' = [thr EXCEPT !["sub"].pc = "wait", !["sub"].ev = RECV_READY,
                        !["sub"].t = -1, !["sub"].at = "clear",
                        !["sub"].did = Append(@, "set")]
  /\ UNCHANGED <<enabled, state, chan, gate, qvars>>

\* recv_ready->clear(); its exception ends the receive
receive_clear ==
  /\ thr["sub"].pc = "clear"
  /\ EventClear("sub", RECV_READY)
  /\ IF count[RECV_READY] = 0
       THEN /\ thr' = [thr EXCEPT !["sub"] = Ready]
            /\ gate' = gate
       ELSE /\ thr' = [thr EXCEPT !["sub"].pc = "under",
                                  !["sub"].did = Append(@, "clear")]
            /\ gate' = [gate EXCEPT !.passed = IF thr["sub"].en THEN @ + 1 ELSE @]
  /\ UNCHANGED <<enabled, state, chan, qvars>>

\* TSubSocket::receive(non_blocking): the next message of the channel;
\* nullptr when there is none and the call is non-blocking; a blocking call
\* stays in its poll loop until there is one
TSubSocket_receive ==
  /\ thr["sub"].pc = "under"
  /\ IF chan # <<>>
       THEN /\ eret' = Result("sub", "receive", "none", 1, Head(chan))
            /\ chan' = Tail(chan)
       ELSE /\ thr["sub"].nb
            /\ eret' = Result("sub", "receive", "none", 0, <<>>)
            /\ chan' = chan
  /\ thr' = [thr EXCEPT !["sub"] = Ready]
  /\ UNCHANGED <<count, esets, enabled, state, gate, qvars>>

\* the driver's recv_called.wait() up to its ppoll; an interrupted wait is
\* called again
driver_wait ==
  /\ thr["drv"].pc = "idle"
  /\ gate.cycles < MaxRounds
  /\ EventWait("drv", RECV_CALLED, -1, "send")
  /\ gate' = [gate EXCEPT !.begun = gate.cycles + 1]
  /\ UNCHANGED <<count, esets, enabled, state, chan, qvars>>

\* the driver's send on the channel the subscriber reads
driver_send ==
  /\ thr["drv"].pc = "send"
  /\ chan' = Append(chan, <<gate.cycles + 1>>)
  /\ thr' = [thr EXCEPT !["drv"].pc = "ready"]
  /\ UNCHANGED <<count, esets, enabled, state, eret, gate, qvars>>

\* the driver's recv_ready.set()
driver_ready ==
  /\ thr["drv"].pc = "ready"
  /\ EventSet("drv", RECV_READY)
  /\ thr' = [thr EXCEPT !["drv"] = Ready]
  /\ gate' = [gate EXCEPT !.cycles = @ + 1]
  /\ UNCHANGED <<enabled, state, chan, qvars>>

GateNext ==
  \/ \E b \in BOOLEAN : set_enabled(b)
  \/ connect
  \/ \E nb \in BOOLEAN : receive(nb)
  \/ receive_set
  \/ receive_clear
  \/ TSubSocket_receive
  \/ driver_wait
  \/ driver_send
  \/ driver_ready
  \/ \E p \in Threads : ppoll_ready(p)
  \/ \E p \in Threads : ppoll_failed(p)

GateSpec == Init /\ [][GateNext]_vars

\* both threads keep running and a ppoll is not interrupted forever; the
\* callers' decisions to call receive, connect and set_enabled are not forced
GateFairSpec ==
  /\ GateSpec
  /\ WF_vars(receive_set)
  /\ WF_vars(receive_clear)
  /\ WF_vars(TSubSocket_receive)
  /\ WF_vars(driver_wait)
  /\ WF_vars(driver_send)
  /\ WF_vars(driver_ready)
  /\ \A p \in Threads : SF_vars(ppoll_ready(p))

(***************************************************************************)
(* MSGQSubSocket, MSGQPubSocket (src/impl_msgq_modern.cc) and the factory  *)
(* SubSocket::create (src/ipc_modern.cc).  msgq_new_queue,                 *)
(* msgq_init_subscriber, msgq_init_publisher, msgq_msg_recv and msgq_poll  *)
(* are calls into the queue; whether they succeed is the environment's     *)
(* choice.  A queue is named by the order of its creation, 1, 2, ...       *)
(***************************************************************************)
Local == "127.0.0.1"
Addresses == {Local, "192.168.0.1"}
Endpoints == {"", "q"}
SockTimeouts == {-1, 0, 100}

\* one more call counted, up to the largest count kept
Counted(k, most) == IF k < most THEN k + 1 ELSE most

\* cleanup(): msgq_close_queue on the queue q holds, if any; q keeps it
cleanup(o, cl) == IF o.q # 0 THEN [cl EXCEPT ![o.q] = @ + 1] ELSE cl

\* what fails in MSGQSubSocket::connect, in the order of its checks
SubConnectFail(ctx, ep, addr, newq, init) ==
  IF ~ctx THEN "context"
  ELSE IF ep = "" THEN "endpoint"
  ELSE IF addr # Local THEN "address"
  ELSE IF ~newq THEN "new_queue"
  ELSE IF ~init THEN "init"
  ELSE "none"

\* what fails in MSGQPubSocket::connect
PubConnectFail(ctx, ep, newq, init) == SubConnectFail(ctx, ep, Local, newq, init)

\* the initialization failed: the inner handler calls cleanup() and
\* rethrows, the outer handler catches the same exception and calls
\* cleanup() again
InitFailureCleanup(o, cl) == cleanup(o, cleanup(o, cl))

\* the body of both connect functions on object o with close counts cl
Connect(o, cl, fail) ==
  LET id == Len(cl) + 1
      made == [o EXCEPT !.q = id]
  IN  CASE fail \in {"context", "endpoint", "address"} -> [o |-> o, cl |-> cl]
        [] fail = "new_queue" -> [o |-> [o EXCEPT !.q = 0], cl |-> cl]
        [] fail = "init" ->
             [o |-> made, cl |-> InitFailureCleanup(made, Append(cl, 0))]
        [] OTHER -> [o |-> [made EXCEPT !.timeout = -1], cl |-> Append(cl, 0)]

\* ~MSGQSubSocket, ~MSGQPubSocket: cleanup(); q.reset()
Destructor(o, cl) ==
  [o |-> [o EXCEPT !.life = "dead", !.q = 0], cl |-> cleanup(o, cl)]

\* SubSocket::create's handler: rethrow when check_endpoint, otherwise a
\* warning on stderr and return nullptr
CreateFailure(check) == IF check THEN "throw" ELSE "null"

\* the object comes to exist (std::make_unique<MSGQSubSocket / MSGQPubSocket>)
Construct(s) ==
  /\ sock[s].life = "none"
  /\ sock' = [sock EXCEPT ![s].life = "alive"]
  /\ sret' = SockResult(s, "construct", "ok", "none")
  /\ UNCHANGED <<closes, inbox, notsock>>

\* MSGQSubSocket::connect; conflate only sets read_conflate of the queue
\* and check_endpoint is not used, so neither is an input here
MSGQSubSocket_connect(ctx, ep, addr, newq, init) ==
  /\ sock["sub"].life = "alive"
  /\ sock["sub"].pc = "idle"
  /\ Len(closes) < MaxQueues
  /\ LET fail == SubConnectFail(ctx, ep, addr, newq, init)
         c == Connect(sock["sub"], closes, fail)
     IN  /\ sock' = [sock EXCEPT !["sub"] = c.o]
         /\ closes' = c.cl
         /\ sret' = SockResult("sub", "connect",
                               IF fail = "none" THEN "ok" ELSE "throw", fail)
  /\ UNCHANGED <<inbox, notsock>>

\* MSGQPubSocket::connect; check_endpoint is not used
MSGQPubSocket_connect(ctx, ep, newq, init) ==
  /\ sock["pub"].life = "alive"
  /\ Len(closes) < MaxQueues
  /\ LET fail == PubConnectFail(ctx, ep, newq, init)
         c == Connect(sock["pub"], closes, fail)
     IN  /\ sock' = [sock EXCEPT !["pub"] = c.o]
         /\ closes' = c.cl
         /\ sret' = SockResult("pub", "connect",
                               IF fail = "none" THEN "ok" ELSE "throw", fail)
  /\ UNCHANGED <<inbox, notsock>>

\* the socket's owner lets go of it
Destroy_socket(s) ==
  /\ sock[s].life = "alive"
  /\ sock[s].pc = "idle"
  /\ LET d == Destructor(sock[s], closes)
     IN  /\ sock' = [sock EXCEPT ![s] = d.o]
         /\ closes' = d.cl
  /\ sret' = SockResult(s, "destroy", "ok", "none")
  /\ UNCHANGED <<inbox, notsock>>

\* SubSocket::create(context, endpoint, address, conflate, check_endpoint):
\* the two argument checks, then create() and connect inside the try block;
\* an exception leaving the block destroys the socket before the handler runs
SubSocket_create(ctx, ep, addr, conflate, check, newq, init) ==
  /\ sock["sub"].life = "none"
  /\ Len(closes) < MaxQueues
  /\ LET fail == SubConnectFail(ctx, ep, addr, newq, init)
         c == Connect([sock["sub"] EXCEPT !.life = "alive"], closes, fail)
         d == Destructor(c.o, c.cl)
     IN  IF fail \in {"context", "endpoint"}
           THEN /\ sret' = SockResult("sub", "create", "throw", fail)
                /\ UNCHANGED <<sock, closes>>
           ELSE IF fail = "none"
             THEN /\ sock' = [sock EXCEPT !["sub"] = c.o]
                  /\ closes' = c.cl
                  /\ sret' = SockResult("sub", "create", "socket", fail)
             ELSE /\ sock' = [sock EXCEPT !["sub"] = d.o]
                  /\ closes' = d.cl
                  /\ sret' = SockResult("sub", "create", CreateFailure(check), fail)
  /\ UNCHANGED <<inbox, notsock>>

\* MSGQSubSocket::setTimeout
setTimeout(t) ==
  /\ sock["sub"].life = "alive"
  /\ sock["sub"].pc = "idle"
  /\ sock' = [sock EXCEPT !["sub"].timeout = t]
  /\ sret' = SockResult("sub", "setTimeout", "ok", "none")
  /\ UNCHANGED <<closes, inbox, notsock>>

\* a publisher's message reaches the queue the subscriber socket reads
msgq_msg_send ==
  /\ inbox < MaxInbox
  /\ inbox' = inbox + 1
  /\ UNCHANGED <<sock, closes, sret, notsock>>

\* entry of MSGQSubSocket::receive
MSGQSubSocket_receive(nb) ==
  /\ sock["sub"].life = "alive"
  /\ sock["sub"].pc = "idle"
  /\ IF sock["sub"].q = 0
       THEN /\ sret' = SockResult("sub", "receive", "throw", "not_connected")
            /\ sock' = sock
       ELSE /\ sock' = [sock EXCEPT !["sub"].pc = "recv", !["sub"].nb = nb,
                                    !["sub"].tries = 0, !["sub"].polls = 0,
                                    !["sub"].rc = 0, !["sub"].n = 0]
            /\ sret' = sret
  /\ UNCHANGED <<closes, inbox, notsock>>

\* a receive whose loop also ends on an empty attempt under timeout -1
LoopEndsAlways(o, rc) == TRUE

\* after an attempt inside the loop: break on n > 0 && rc > 0, break on
\* timeout != -1, and the loop condition rc == 0
LoopEnds(o, rc) == (o.n > 0 /\ rc > 0) \/ o.timeout # -1 \/ rc # 0

\* msgq_msg_recv: the first attempt, or the attempt after a poll; then the
\* tests that follow it, up to the next msgq_poll or the return
msgq_msg_recv(rc) ==
  /\ sock["sub"].pc = "recv"
  /\ IF inbox > 0 THEN rc # 0 ELSE rc <= 0
  /\ inbox' = IF rc > 0 THEN inbox - 1 ELSE inbox
  /\ LET o == sock["sub"]
         done == IF o.tries = 0 THEN o.nb \/ rc # 0 ELSE LoopEnds(o, rc)
     IN  /\ sock' = [sock EXCEPT !["sub"].pc = IF done THEN "idle" ELSE "poll",
                                 !["sub"].rc = rc,
                                 !["sub"].tries = Counted(o.tries, MaxTries)]
         /\ sret' = IF done
                      THEN SockResult("sub", "receive",
                                      IF rc > 0 THEN "msg" ELSE "null", "none")
                      ELSE sret
  /\ UNCHANGED <<closes, notsock>>

\* msgq_poll(items, 1, poll_timeout): returns 1 when a message waits, 0
\* when the timeout passes
msgq_poll ==
  /\ sock["sub"].pc = "poll"
  /\ sock' = [sock EXCEPT !["sub"].pc = "recv",
                          !["sub"].n = IF inbox > 0 THEN 1 ELSE 0,
                          !["sub"].polls = Counted(sock["sub"].polls, MaxPolls)]
  /\ UNCHANGED <<closes, inbox, sret, notsock>>

SockNext ==
  \/ \E s \in Sockets : Construct(s)
  \/ \E ctx, newq, init \in BOOLEAN : \E ep \in Endpoints : \E addr \in Addresses :
       MSGQSubSocket_connect(ctx, ep, addr, newq, init)
  \/ \E ctx, conflate, check, newq, init \in BOOLEAN :
       \E ep \in Endpoints : \E addr \in Addresses :
         SubSocket_create(ctx, ep, addr, conflate, check, newq, init)
  \/ \E ctx, newq, init \in BOOLEAN : \E ep \in Endpoints :
       MSGQPubSocket_connect(ctx, ep, newq, init)
  \/ \E s \in Sockets : Destroy_socket(s)
  \/ \E t \in SockTimeouts : setTimeout(t)
  \/ msgq_msg_send
  \/ \E nb \in BOOLEAN : MSGQSubSocket_receive(nb)
  \/ \E rc \in {-1, 0, 1} : msgq_msg_recv(rc)
  \/ msgq_poll

SockSpec == Init /\ [][SockNext]_vars

\* the receiving thread keeps running
SockFairSpec == SockSpec /\ WF_vars(\E rc \in {-1, 0, 1} : msgq_msg_recv(rc))
                         /\ WF_vars(msgq_poll)

(***************************************************************************)
(* SocketEventHandle (src/event_modern.h): construction on the endpoint's  *)
(* event-state file, move construction, move assignment, destruction.      *)
(***************************************************************************)
\* MmapGuard::unmap on mapping m: munmap when addr_ is not null
unmap(k, m) == IF m # 0 THEN [k EXCEPT !.unmaps[m] = @ + 1] ELSE k

\* the body of ~SocketEventHandle for handle h with members o: when state_
\* is set and mmap_ is valid, close state_->fds[0] and fds[1] if they are
\* >= 0, then unlink shm_path_ if it is not empty
DestructorBody(k, h, o) ==
  IF ~(o.state /\ o.map # 0) THEN k
  ELSE LET f == k.mapfile[o.map]
           pr == k.files[f]
           mine == pr # 0 /\ k.creator[pr] = h
           closed == [k EXCEPT
                        !.fdclose = IF pr # 0 THEN [@ EXCEPT ![pr] = @ + 1] ELSE @,
                        !.foreign = IF mine THEN @ ELSE @ + 1,
                        !.late = IF pr # 0 /\ k.linked # f THEN @ + 1 ELSE @]
       IN  IF o.path /\ k.linked = f THEN [closed EXCEPT !.linked = 0] ELSE closed

\* the whole destructor: its body, then the members' destructors
Destruct(k, h, o) == unmap(DestructorBody(k, h, o), o.map)

\* SocketEventHandle(endpoint, identifier, override): map_event_state opens
\* (creating it if absent) and maps the file; with override two eventfds are
\* created and their numbers stored in the mapped EventState
SocketEventHandle(h, override) ==
  /\ hnd[h].life = "none"
  /\ LET fresh == kern.linked = 0
         f == IF fresh THEN Len(kern.files) + 1 ELSE kern.linked
         files1 == IF fresh THEN Append(kern.files, 0) ELSE kern.files
         pr == Len(kern.fdclose) + 1
     IN  /\ kern' = [kern EXCEPT
                       !.files = IF override THEN [files1 EXCEPT ![f] = pr] ELSE files1,
                       !.linked = f,
                       !.mapfile = Append(@, f),
                       !.unmaps = Append(@, 0),
                       !.fdclose = IF override THEN Append(@, 0) ELSE @,
                       !.creator = IF override THEN Append(@, h) ELSE @]
         /\ hnd' = [hnd EXCEPT ![h] = [life |-> "alive", map |-> Len(kern.unmaps) + 1,
                                       state |-> TRUE, path |-> TRUE]]
  /\ UNCHANGED nothandle

\* ~SocketEventHandle at the end of the object's life
Destroy_handle(h) ==
  /\ hnd[h].life = "alive"
  /\ kern' = Destruct(kern, h, hnd[h])
  /\ hnd' = [hnd EXCEPT ![h] = [NoHandle EXCEPT !.life = "dead"]]
  /\ UNCHANGED nothandle

\* SocketEventHandle(SocketEventHandle&& other): the members move over and
\* other.state_ becomes null
MoveConstruct(h, other) ==
  /\ hnd[h].life = "none"
  /\ hnd[other].life = "alive"
  /\ hnd' = [hnd EXCEPT ![h] = hnd[other],
                        ![other] = [NoHandle EXCEPT !.life = "alive"]]
  /\ UNCHANGED <<kern, nothandle>>

\* operator=(SocketEventHandle&& other): this->~SocketEventHandle() runs
\* the destructor's body and the members' destructors; the assignments that
\* follow use the destroyed members, and mmap_'s move assignment calls
\* unmap() on the address the destroyed mmap_ still holds (stale) or finds
\* it null
MoveAssign(h, other, stale) ==
  /\ h # other
  /\ hnd[h].life = "alive"
  /\ hnd[other].life = "alive"
  /\ kern' = unmap(Destruct(kern, h, hnd[h]), IF stale THEN hnd[h].map ELSE 0)
  /\ hnd' = [hnd EXCEPT ![h] = hnd[other],
                        ![other] = [NoHandle EXCEPT !.life = "alive"]]
  /\ UNCHANGED nothandle

HandleNext ==
  \/ \E h \in EventHandles : \E override \in BOOLEAN : SocketEventHandle(h, override)
  \/ \E h \in EventHandles : Destroy_handle(h)
  \/ \E h, other \in EventHandles : MoveConstruct(h, other)
  \/ \E h, other \in EventHandles : \E stale \in BOOLEAN : MoveAssign(h, other, stale)

HandleSpec == Init /\ [][HandleNext]_vars

(***************************************************************************)
(* PackedPointer computations: two pointers built from (cycle, offset)     *)
(* pairs, then a pointer built from the first one's raw().                 *)
(***************************************************************************)
Halves == 0..(HalfMod - 1)
Edges == {0, 1, HalfMod - 1}

PackInit ==
  /\ Created
  /\ pp \in {[NoPack EXCEPT !.at = "in", !.c = c, !.o = o, !.c2 = c2, !.o2 = o2] :
              c \in Halves, o \in Halves, c2 \in Edges, o2 \in Edges}

\* PackedPointer(cycle, offset), for both pairs
Pack ==
  /\ pp.at = "in"
  /\ pp' = [pp EXCEPT !.at = "packed", !.v = PackedPointer(pp.c, pp.o),
                      !.w = PackedPointer(pp.c2, pp.o2)]
  /\ UNCHANGED <<pairvars, queuevars, sockvars, handlevars>>

\* PackedPointer(v.raw())
Repack ==
  /\ pp.at = "packed"
  /\ pp' = [pp EXCEPT !.at = "raw", !.r = FromRaw(raw(pp.v))]
  /\ UNCHANGED <<pairvars, queuevars, sockvars, handlevars>>

PackNext == Pack \/ Repack

PackSpec == PackInit /\ [][PackNext]_vars

(***************************************************************************)
(* Definitions used by the properties.                                     *)
(***************************************************************************)
Joined(h) == reader_id_[h] >= 0 /\ reader_id_[h] < NUM_READERS
Cursor(h) == read_index[reader_id_[h]]
CaughtUp(h) == Joined(h) /\ Cursor(h) = write_index

\* handles that own a slot of read_index[]
LiveOwners == Cardinality({h \in DOMAIN reader_id_ : Joined(h)})

\* the payloads published since h subscribed
SentSince(h) == SubSeq(sent, joinAt[h] + 1, Len(sent))

IsPrefix(a, b) == Len(a) <= Len(b) /\ \A i \in 1..Len(a) : a[i] = b[i]

RECURSIVE Concat(_)
Concat(ss) == IF ss = <<>> THEN <<>> ELSE Head(ss) \o Concat(Tail(ss))

\* every byte published so far, in order
Stream == Concat(sent)

Min(a, b) == IF a < b THEN a ELSE b

\* bytes needed by the frame of an n-byte payload: 8-byte header plus the
\* payload, rounded up to 8
FrameNeed(n) == align_to_8(8 + n)

\* the value of write_index after the first k sends
RECURSIVE PtrAfter(_)
PtrAfter(k) == IF k = 0 THEN 0 ELSE NewPtr(PtrAfter(k - 1), Len(sent[k]))

\* every value write_index holds or has held
Published == {PtrAfter(k) : k \in 0..Len(sent)}

\* this step completes a send
SendCompletes == pub.pc > 0 /\ pub'.pc = 0

\* h has not been lapped: everything published since it subscribed still
\* fits in the data region
NotLapped(h) == Len(Concat(SentSince(h))) <= size_

(***************************************************************************)
(* C1  Framing round trip: when a subscriber has joined, exactly one       *)
(* payload b of at most size_ - 8 bytes has been sent since, and the       *)
(* subscriber has not yet received anything, its recv returns exactly b.   *)
(***************************************************************************)
C1_RoundTrip ==
  [][\A h \in Subs :
       (/\ Joined(h)
        /\ rcvd[h] = <<>>
        /\ Len(SentSince(h)) = 1
        /\ Len(SentSince(h)[1]) <= size_ - 8
        /\ Recv(h))
         => ret' = [op |-> "recv", err |-> "none", msg |-> SentSince(h)[1]]]_vars

(***************************************************************************)
(* C2  Order preservation: for a subscriber that has not been lapped, the  *)
(* messages its recvs returned are a prefix of the payloads sent since it  *)
(* joined, and are all of them once its cursor equals write_index.         *)
(***************************************************************************)
C2_OrderPreserved ==
  \A h \in Subs :
    (Joined(h) /\ NotLapped(h)) =>
      /\ IsPrefix(rcvd[h], SentSince(h))
      /\ CaughtUp(h) => rcvd[h] = SentSince(h)

(***************************************************************************)
(* C3  Reader independence: a recv by subscriber a leaves the cursor and   *)
(* the received messages of every other subscriber b unchanged, and a      *)
(* caught-up b that was not lapped has received the full stream since it   *)
(* joined, whatever a has read.                                            *)
(***************************************************************************)
C3_ReaderIndependence ==
  [][\A a, b \in Subs :
       (a # b /\ Joined(a) /\ Joined(b) /\ Recv(a)) =>
         /\ read_index'[reader_id_[b]] = read_index[reader_id_[b]]
         /\ rcvd'[b] = rcvd[b]
         /\ (read_index'[reader_id_[b]] = write_index' /\ NotLapped(b))
              => rcvd'[b] = SentSince(b)]_vars

(***************************************************************************)
(* C4  Publisher non-blocking: in every reachable state a send in progress *)
(* can take its next step, whatever the readers' cursors and however many  *)
(* readers are registered, and with only the publisher scheduled fairly     *)
(* every send in progress completes.                                       *)
(***************************************************************************)
C4_SendCompletes ==
  /\ [](pub.pc > 0 => ENABLED SendStep)
  /\ (pub.pc > 0) ~> (pub.pc = 0)

\* a second send has just completed while one subscriber has read nothing
\* yet and another had caught up with the first send
C4_Witness ==
  /\ pub.pc = 0
  /\ Len(sent) >= 2
  /\ ret = [op |-> "send", err |-> "none", msg |-> <<>>]
  /\ \E a, b \in Subs :
       /\ Joined(a) /\ joinAt[a] = 0 /\ rcvd[a] = <<>>
       /\ Joined(b) /\ joinAt[b] = 0 /\ rcvd[b] # <<>>

(***************************************************************************)
(* C5  A completed send of n bytes whose frame fits before the end of the  *)
(* data region advances write_index's offset by align8(8 + n) and leaves   *)
(* its cycle unchanged.                                                    *)
(***************************************************************************)
C5_AdvanceByFrame ==
  [][(SendCompletes
        /\ offset(write_index) + FrameNeed(Len(pub.p)) <= size_) =>
       /\ offset(write_index') = offset(write_index) + FrameNeed(Len(pub.p))
       /\ cycle(write_index') = cycle(write_index)]_vars

(***************************************************************************)
(* C6  Wrap correctness: a completed send adds one to write_index's cycle  *)
(* when its frame does not fit before the end of the data region, and      *)
(* leaves the cycle unchanged otherwise.                                   *)
(***************************************************************************)
C6_CycleOncePerWrap ==
  [][SendCompletes =>
       cycle(write_index') = cycle(write_index) +
         (IF offset(write_index) + FrameNeed(Len(pub.p)) > size_
            THEN 1 ELSE 0)]_vars

(***************************************************************************)
(* C7  Wrap discipline: after a completed send the payload lies in one     *)
(* piece in the data region, never split across its end.                   *)
(***************************************************************************)
C7_FrameContiguous ==
  (pub.pc = 0 /\ sent # <<>>) =>
    LET p == sent[Len(sent)]
    IN \E a \in 0..(size_ - 1) :
         /\ a + Len(p) <= size_
         /\ \A i \in 1..Len(p) : data[a + i - 1] = p[i]

(***************************************************************************)
(* C8  The cycle field of write_index never decreases, across every        *)
(* transition.                                                             *)
(***************************************************************************)
C8_CycleMonotonic ==
  [][cycle(write_index') >= cycle(write_index)]_vars

\* a recv has just returned after two sends raised the cycle
C8_Witness ==
  /\ cycle(write_index) >= 2
  /\ ret.op = "recv"
  /\ \E h \in Subs : CaughtUp(h) /\ rcvd[h] # <<>>

(***************************************************************************)
(* C9  Publication ordering: whenever write_index holds w, the bytes of    *)
(* the frames published up to w are in the data region, except those an    *)
(* unpublished send in progress is overwriting; a frame is never published *)
(* before all its bytes are written.                                       *)
(***************************************************************************)
C9_PublishedBytesWritten ==
  LET off == offset(write_index)
      busy == IF pub.pc > 1 /\ write_index = pub.w THEN Len(pub.p) ELSE 0
  IN \A k \in 1..Min(Len(Stream), size_ - busy) :
       data[(off + size_ - k) % size_] = Stream[Len(Stream) - k + 1]

\* a subscriber has observed the published pointer while the next send is
\* copying its bytes
C9_Witness ==
  /\ pub.pc > 1
  /\ Len(pub.p) > 0
  /\ sent # <<>>
  /\ Stream # <<>>
  /\ \E h \in Subs : CaughtUp(h) /\ rcvd[h] # <<>>

(***************************************************************************)
(* C10  MessageTooLarge: a send of a payload longer than size_ - 8 on the  *)
(* publisher fails with an error and starts no write.                      *)
(***************************************************************************)
C10_TooLargeRejected ==
  [][\A p \in Payloads :
       (is_publisher_[Pub] /\ Len(p) > size_ - 8 /\ SendBegin(p)) =>
         /\ ret' = [op |-> "send", err |-> "TooLarge", msg |-> <<>>]
         /\ pub'.pc = 0
         /\ UNCHANGED shared]_vars

(***************************************************************************)
(* C11  NotInitialized: a send on a handle on which init_publisher was     *)
(* never called, and a recv on a handle on which init_subscriber was never *)
(* called, each fail with an error and leave the shared state unchanged.   *)
(***************************************************************************)
C11_NotInitialized ==
  [][/\ \A p \in Payloads :
          (~is_publisher_[Pub] /\ SendBegin(p)) =>
            /\ ret' = [op |-> "send", err |-> "NotPublisher", msg |-> <<>>]
            /\ pub'.pc = 0
            /\ UNCHANGED shared
     /\ \A h \in Handles :
          (joinAt[h] = -1 /\ Recv(h)) =>
            /\ ret' = [op |-> "recv", err |-> "NotSubscriber", msg |-> <<>>]
            /\ UNCHANGED <<shared, rcvd>>]_vars

\* a recv on a handle that never subscribed has failed on a channel that
\* holds published data and has a registered reader
C11_Witness ==
  /\ ret = [op |-> "recv", err |-> "NotSubscriber", msg |-> <<>>]
  /\ sent # <<>>
  /\ num_readers > 0
  /\ \A h \in Subs : joinAt[h] # -1

C13_JoinPoint ==
  /\ [][\A h \in Subs :
          (InitSubscriber(h) /\ ret'.err = "none") =>
            /\ read_index'[reader_id_'[h]] = write_index'
            /\ msg_ready(h)' = {FALSE}]_vars
  /\ [](\A h \in Subs : Joined(h) => Len(rcvd[h]) <= Len(SentSince(h)))

C15_EmptyRecv ==
  [][\A h \in Subs :
       (CaughtUp(h) /\ Recv(h)) =>
         /\ ret' = [op |-> "recv", err |-> "none", msg |-> <<>>]
         /\ rcvd'[h] = rcvd[h]
         /\ UNCHANGED <<shared, is_publisher_, reader_id_, pub>>]_vars

\* no recv has taken the new-data branch yet, so the recv that has just
\* returned without error was made at cursor = write_index; the first send
\* is copying its bytes and has not published them
C15_Witness ==
  /\ ret = [op |-> "recv", err |-> "none", msg |-> <<>>]
  /\ \A h \in Subs : CaughtUp(h) /\ rcvd[h] = <<>>
  /\ pub.pc > 1
  /\ \E a \in DOMAIN data : data[a] # 0

(***************************************************************************)
(* C16  Lapped resync: when the publisher has overwritten data a           *)
(* subscriber has not read, the subscriber's next successful recv returns  *)
(* exactly the payload of the most recently published frame, never an      *)
(* older or torn one, under any interleaving with the publisher.           *)
(***************************************************************************)
C16_LappedResync ==
  [][\A h \in Subs :
       (/\ Joined(h)
        /\ rcvd[h] = <<>>
        /\ ~NotLapped(h)
        /\ Recv(h)
        /\ ret'.err = "none") =>
         ret'.msg = sent[Len(sent)]]_vars

(***************************************************************************)
(* C17  Conflate: after N >= 1 sends with no recv in between, one recv     *)
(* with conflate = true returns the payload of the N-th send, and          *)
(* afterwards msg_ready() is false.  (receive_message never reads its      *)
(* conflate parameter, so Recv stands for both values of it.)              *)
(***************************************************************************)
C17_Conflate ==
  [][\A h \in Subs :
       (/\ Joined(h)
        /\ rcvd[h] = <<>>
        /\ Len(SentSince(h)) >= 1
        /\ pub.pc = 0
        /\ Recv(h)) =>
         /\ ret' = [op |-> "recv", err |-> "none", msg |-> sent[Len(sent)]]
         /\ msg_ready(h)' = {FALSE}]_vars

(***************************************************************************)
(* C18  Slot release: after a subscriber handle is destroyed in an orderly *)
(* way its slot is free again, so that a later init_subscriber can claim   *)
(* it and no number of subscribe/destroy rounds exhausts the NUM_READERS   *)
(* slots, and all_readers_updated() no longer depends on the destroyed     *)
(* subscriber's cursor.                                                    *)
(***************************************************************************)
C18_SlotRelease ==
  /\ [][\A h \in SlotSubs :
          (/\ ended.killed = 0
           /\ LiveOwners < NUM_READERS
           /\ InitSubscriber(h)) =>
            /\ ret' = [op |-> "init_subscriber", err |-> "none", msg |-> <<>>]
            /\ Joined(h)']_vars
  /\ []((ended.killed = 0 /\ num_readers <= NUM_READERS) =>
          (all_readers_updated <=>
             (\A h \in SlotSubs : Joined(h) => CaughtUp(h))))

(***************************************************************************)
(* C19  Slot reclamation: when all NUM_READERS slots are occupied and the  *)
(* owner of at least one of them has terminated without cleanup, a later   *)
(* init_subscriber succeeds, taking over a dead owner's slot with the      *)
(* cursor reset to write_index.                                            *)
(***************************************************************************)
C19_SlotReclamation ==
  [][\A h \in SlotSubs :
       (/\ num_readers >= NUM_READERS
        /\ ended.killed > 0
        /\ ended.destroyed = 0
        /\ LiveOwners < NUM_READERS
        /\ InitSubscriber(h)) =>
         /\ ret' = [op |-> "init_subscriber", err |-> "none", msg |-> <<>>]
         /\ Joined(h)'
         /\ \A g \in SlotSubs \ {h} : Joined(g) => reader_id_[g] # reader_id_'[h]
         /\ CaughtUp(h)']_vars

(***************************************************************************)
(* C20  Segment size mismatch: opening an existing channel with a          *)
(* different requested size fails with an error, and the existing          *)
(* segment's size and contents are unchanged: neither truncated nor        *)
(* extended.                                                               *)
(***************************************************************************)
C20_SizeMismatch ==
  [][\A sz \in OtherSizes :
       (align_to_8(sz) # size_ /\ init_shared_memory(sz)) =>
         /\ ret'.op = "create"
         /\ ret'.err # "none"
         /\ DOMAIN data' = DOMAIN data
         /\ data' = data]_vars

(***************************************************************************)
(* C21  Registration race: under every interleaving of concurrent          *)
(* init_subscriber calls on one channel no two subscribers end up with the *)
(* same reader slot, and the slot count equals the number of               *)
(* registrations performed.                                                *)
(***************************************************************************)
C21_RegistrationRace ==
  /\ \A g, h \in Subs :
       (g # h /\ Joined(g) /\ Joined(h)) => reader_id_[g] # reader_id_[h]
  /\ (\A h \in Subs : reg[h] = -1) =>
       num_readers = Cardinality({h \in Subs : reader_id_[h] # -1})

C23_SetWaitClear ==
  /\ [](\A e \in Purposes : esets[e] > 0 <=> peek(e))
  /\ [](\A p \in Threads :
          thr[p].pc = "wait" =>
            /\ esets[thr[p].ev] > 0 =>
                 (ENABLED ppoll_ready(p) /\ ~ENABLED ppoll_timeout(p))
            /\ esets[thr[p].ev] = 0 =>
                 /\ ~ENABLED ppoll_ready(p)
                 /\ thr[p].t >= 0 => ENABLED ppoll_timeout(p))
  /\ [][\A p \in Threads :
          ppoll_ready(p) =>
            /\ UNCHANGED <<count, esets>>
            /\ eret' = Result(p, "wait", "none", 0, <<>>)]_vars

\* the subscriber has cleared an event that was set twice while the driver
\* is in a wait with finite timeout on it
C23_Witness ==
  /\ eret = Result("sub", "clear", "none", 2, <<>>)
  /\ thr["drv"].pc = "wait"
  /\ thr["drv"].t >= 0
  /\ count[thr["drv"].ev] = 0
  /\ \E e \in Purposes : count[e] > 0

(***************************************************************************)
(* C24  wait_for_one over a list of events returns the index, in the       *)
(* caller's list, of the lowest-positioned event that is signaled at the   *)
(* time of the call, also for lists that hold invalid events before the    *)
(* signaled one.                                                           *)
(***************************************************************************)
C24_WaitForOneIndex ==
  [][\A evs \in EventLists, t \in Timeouts :
       (ReadyAt(evs) # {} /\ wait_for_one("drv", evs, t)
          /\ eret'.err = "none") =>
         eret'.val = Lowest(ReadyAt(evs)) - 1]_vars

(***************************************************************************)
(* C25  Event clear: clear() on an event on which set() was called k >= 1  *)
(* times since the last clear returns k and resets the count to zero;      *)
(* clear() on an event with count zero fails with an error and leaves the  *)
(* event unchanged.                                                        *)
(***************************************************************************)
C25_ClearCount ==
  [][\A p \in Threads, e \in Purposes :
       clear(p, e) =>
         IF esets[e] >= 1
           THEN /\ eret' = Result(p, "clear", "none", esets[e], <<>>)
                /\ count' = [count EXCEPT ![e] = 0]
                /\ ~peek(e)'
           ELSE /\ eret'.op = "clear"
                /\ eret'.err # "none"
                /\ count' = count]_vars

\* a clear of an event that was set more than once has returned, on an
\* event pair whose other event is still signaled
C25_Witness ==
  /\ eret.op = "clear"
  /\ eret.err = "none"
  /\ eret.val >= 2
  /\ count[RECV_CALLED] = 0
  /\ count[RECV_READY] = 1

(***************************************************************************)
(* C26  Event wait timeout: wait(t) with t >= 0 on an event that is not    *)
(* set fails with a timeout once the deadline elapses; wait(t) with t < 0  *)
(* never fails with a timeout and returns only when the event is signaled  *)
(* (or the wait is interrupted).                                           *)
(***************************************************************************)
C26_WaitTimeout ==
  /\ [][\A p \in Threads :
          (thr[p].pc = "wait" /\ thr'[p].pc # "wait") =>
            /\ thr[p].t < 0 =>
                 /\ eret'.err # "Timeout"
                 /\ eret'.err = "none" => esets[thr[p].ev] > 0
            /\ (thr[p].t >= 0 /\ esets[thr[p].ev] = 0) =>
                 eret' \in {Result(p, "wait", "Timeout", 0, <<>>),
                            Result(p, "wait", "PollFailed", 0, <<>>)}]_vars
  /\ \A p \in Threads :
       (thr[p].pc = "wait" /\ thr[p].t >= 0) ~> (thr[p].pc = "idle")

\* a wait with finite timeout has timed out while the other thread is in a
\* wait with infinite timeout on an event that is not set
C26_Witness ==
  /\ eret = Result("sub", "wait", "Timeout", 0, <<>>)
  /\ thr["drv"].pc = "wait"
  /\ thr["drv"].t < 0
  /\ count[thr["drv"].ev] = 0

(***************************************************************************)
(* C27  FakeGate step order: when the gate is enabled, every receive       *)
(* performs, in this order and each exactly once, recv_called.set(),       *)
(* recv_ready.wait() with infinite timeout, recv_ready.clear(), and only   *)
(* then the underlying receive.                                            *)
(***************************************************************************)
C27_GateOrder ==
  /\ [][(thr["sub"].en /\ TSubSocket_receive) =>
          thr["sub"].did = <<"set", "wait", "clear">>]_vars
  /\ []((thr["sub"].pc = "wait" /\ thr["sub"].at = "clear") =>
          (thr["sub"].ev = RECV_READY /\ thr["sub"].t < 0))

(***************************************************************************)
(* C28  FakeGate determinism: with the gate enabled, under any             *)
(* interleaving, a receive never reaches the underlying receive before the *)
(* driver has performed a recv_called.wait + recv_ready.set cycle for it:  *)
(* the receives past the gate never outnumber the driver's                 *)
(* recv_ready.set() calls.                                                 *)
(***************************************************************************)
C28_GateDeterminism == gate.passed <= gate.cycles

(***************************************************************************)
(* C29  FakeGate liveness: with the gate enabled and fair scheduling, when *)
(* the subscriber calls receive and the driver performs recv_called.wait,  *)
(* a send and recv_ready.set, the receive eventually passes the gate and   *)
(* returns the sent payload; the rendezvous never deadlocks, also over     *)
(* several consecutive receives.                                           *)
(***************************************************************************)
C29_GateLiveness ==
  /\ (thr["sub"].pc # "idle" /\ thr["sub"].en) ~> (thr["sub"].pc = "idle")
  /\ [][(thr["sub"].en /\ TSubSocket_receive) =>
          (chan # <<>> /\ eret'.val = 1 /\ eret'.msg = Head(chan))]_vars

(***************************************************************************)
(* C30  FakeGate transparency: when the gate is disabled, receive neither  *)
(* sets recv_called nor waits on or clears recv_ready, both events are     *)
(* left unchanged, and the result is that of the underlying receive.       *)
(***************************************************************************)
C30_GateTransparent ==
  /\ []((thr["sub"].pc # "idle" /\ ~thr["sub"].en) => thr["sub"].pc = "under")
  /\ [][(~thr["sub"].en /\ TSubSocket_receive) =>
          /\ thr["sub"].did = <<>>
          /\ UNCHANGED <<count, esets>>
          /\ eret' = Result("sub", "receive", "none",
                            IF chan = <<>> THEN 0 ELSE 1,
                            IF chan = <<>> THEN <<>> ELSE Head(chan))]_vars

(***************************************************************************)
(* C31  Error propagation: every failure of connecting a subscriber socket *)
(* (invalid address, queue creation failure, slot exhaustion) reaches the  *)
(* caller of SubSocket::create as an error, for every value of its         *)
(* arguments, check_endpoint = false included; no failure becomes a normal *)
(* return.                                                                 *)
(***************************************************************************)
C31_ErrorPropagation ==
  (sret.op = "create" /\ sret.fail # "none") => sret.out = "throw"

(***************************************************************************)
(* C32  PackedPointer round-trip: for every cycle c and offset o of the    *)
(* half width, PackedPointer(c, o).cycle() = c, .offset() = o, raw() is    *)
(* c * 2^width + o, PackedPointer(raw) gives the same cycle and offset,    *)
(* and two packed pointers are equal iff both cycle and offset are equal.  *)
(***************************************************************************)
C32_PackRoundTrip ==
  /\ pp.at \in {"packed", "raw"} =>
       /\ cycle(pp.v) = pp.c
       /\ offset(pp.v) = pp.o
       /\ raw(pp.v) = pp.c * HalfMod + pp.o
       /\ Equal(pp.v, pp.w) <=> (pp.c = pp.c2 /\ pp.o = pp.o2)
  /\ pp.at = "raw" =>
       /\ cycle(pp.r) = pp.c
       /\ offset(pp.r) = pp.o
       /\ Equal(pp.r, pp.v)

C32_Witness ==
  /\ pp.at = "raw"
  /\ pp.c = HalfMod - 1
  /\ pp.o = HalfMod - 1
  /\ pp.c2 = 0
  /\ pp.o2 = HalfMod - 1
  /\ ~Equal(pp.v, pp.w)

(***************************************************************************)
(* C33  MSGQSubSocket::receive blocking discipline: with non_blocking =    *)
(* true it makes exactly one receive attempt and never polls; with         *)
(* non_blocking = false and timeout != -1 it polls at most once and        *)
(* returns nullptr, not an error, if nothing arrived; with timeout = -1 it *)
(* keeps polling until an attempt yields a message or an error, so it      *)
(* returns a message whenever one eventually becomes available.            *)
(***************************************************************************)
C33_BlockingDiscipline ==
  /\ [][((\E rc \in {-1, 0, 1} : msgq_msg_recv(rc)) /\ sock'["sub"].pc = "idle") =>
          LET o == sock'["sub"]
          IN  /\ sret'.op = "receive"
              /\ sret'.out = (IF o.rc > 0 THEN "msg" ELSE "null")
              /\ o.nb => (o.tries = 1 /\ o.polls = 0)
              /\ (~o.nb /\ o.timeout # -1) => o.polls <= 1
              /\ (~o.nb /\ o.timeout = -1) => o.rc # 0]_vars
  /\ [](sock["sub"].pc = "poll" => ~sock["sub"].nb)
  /\ (sock["sub"].pc # "idle" /\ ~sock["sub"].nb /\ sock["sub"].timeout = -1
        /\ inbox > 0)
       ~> (sock["sub"].pc = "idle" /\ sret.op = "receive"
            /\ (sret.out = "msg" \/ sock["sub"].rc < 0))

C33_Witness ==
  /\ sock["sub"].pc = "idle"
  /\ sret = SockResult("sub", "receive", "msg", "none")
  /\ ~sock["sub"].nb
  /\ sock["sub"].timeout = -1
  /\ sock["sub"].polls = MaxPolls
  /\ sock["sub"].rc > 0

(***************************************************************************)
(* C34  Reader-array bounds: after any sequence of init_subscriber         *)
(* (failed ones included), recv, msg_ready and all_readers_updated calls   *)
(* on any handles, num_readers never exceeds NUM_READERS and every access  *)
(* to the reader cursor array uses an index in 0..NUM_READERS-1.           *)
(***************************************************************************)
C34_ReaderArrayBounds ==
  /\ num_readers <= NUM_READERS
  /\ AllReadersIndexes \subseteq 0..(NUM_READERS - 1)
  /\ RecvIndexes \subseteq 0..(NUM_READERS - 1)
  /\ \A h \in DOMAIN reader_id_ : MsgReadyIndex(h) \in 0..(NUM_READERS - 1)

(***************************************************************************)
(* C35  Failed registration leaves state unchanged: when init_subscriber   *)
(* fails because no slot is available, num_readers and all reader cursors  *)
(* are unchanged and the handle is still not a subscriber (its recv fails  *)
(* with the not-initialized error).                                        *)
(***************************************************************************)
C35_FailedRegistration ==
  [][\A h \in DOMAIN reader_id_ :
       (InitSubscriber(h) /\ ret'.err = "MaxReaders") =>
         /\ UNCHANGED <<num_readers, read_index>>
         /\ reader_id_'[h] < 0]_vars

(***************************************************************************)
(* C36  Reader cursor never ahead: in every reachable state, under any     *)
(* interleaving of sends and recvs, each reader's cursor is a value that   *)
(* write_index holds or held before, or the initial zero; never a value    *)
(* the writer has not published.                                           *)
(***************************************************************************)
C36_CursorNeverAhead ==
  /\ write_index = PtrAfter(Len(sent))
  /\ {read_index[i] : i \in 0..(NUM_READERS - 1)} \subseteq Published

C36_Witness ==
  /\ Len(sent) = MaxSends
  /\ \E h \in Subs : /\ Joined(h)
                      /\ rcvd[h] # <<>>
                      /\ Cursor(h) # 0
                      /\ Cursor(h) # write_index

(***************************************************************************)
(* C37  Every successful send, a send of an empty payload and a send that  *)
(* brings the offset back to an earlier value included, changes            *)
(* write_index to a value different from the one before, so msg_ready()    *)
(* becomes true for every subscriber that was caught up before the send.   *)
(***************************************************************************)
C37_SendChangesCursor ==
  [][SendCompletes =>
       /\ write_index' # write_index
       /\ \A h \in Subs : CaughtUp(h) => msg_ready(h)' = {TRUE}]_vars

C37_Witness ==
  /\ pub.pc = 0
  /\ Len(sent) = MaxSends
  /\ sent[MaxSends] = <<>>
  /\ offset(write_index) = offset(PtrAfter(MaxSends - 1))
  /\ \E h \in Subs : /\ Joined(h)
                      /\ Cursor(h) = PtrAfter(MaxSends - 1)
                      /\ msg_ready(h) = {TRUE}

(***************************************************************************)
(* C38  Queue close exactly once: for MSGQSubSocket and MSGQPubSocket,     *)
(* over any sequence of connect calls (successful, or failing at queue     *)
(* creation or at the subscriber/publisher initialization) followed by     *)
(* destruction, msgq_close_queue is called exactly once for each queue     *)
(* that was created and never on a queue that is already closed.           *)
(***************************************************************************)
C38_CloseOnce ==
  \A id \in DOMAIN closes :
    /\ closes[id] <= 1
    /\ (\A s \in Sockets : sock[s].q # id) => closes[id] = 1

(***************************************************************************)
(* C39  Event-state release exactly once: over any sequence of             *)
(* construction, move construction, move assignment and destruction of     *)
(* SocketEventHandle objects, each event-state mapping is unmapped exactly *)
(* once and each event descriptor is closed exactly once, before the       *)
(* event-state file is unlinked, and only by the handle that created it    *)
(* (override = true).                                                      *)
(***************************************************************************)
C39_ReleaseOnce ==
  LET held == {hnd[h].map : h \in EventHandles}
      over == \A h \in EventHandles : hnd[h].life # "alive"
  IN  /\ \A m \in DOMAIN kern.unmaps :
           /\ kern.unmaps[m] <= 1
           /\ m \notin held => kern.unmaps[m] = 1
      /\ \A pr \in DOMAIN kern.fdclose :
           /\ kern.fdclose[pr] <= 1
           /\ over => kern.fdclose[pr] = 1
      /\ kern.foreign = 0
      /\ kern.late = 0

(***************************************************************************)
(* C40  FakeGate enabled flag is live: the subscriber's receive decides    *)
(* whether to gate from the current value of EventState.enabled in the     *)
(* shared event state, so a change of the flag made by the driver after    *)
(* the subscriber connected takes effect on the subscriber's next receive: *)
(* a receive enters the gate exactly when the shared flag is set.          *)
(***************************************************************************)
C40_FlagIsLive ==
  [][(\E nb \in BOOLEAN : receive(nb)) =>
       ((thr'["sub"].pc = "set") <=> enabled)]_vars

====
